---- MODULE Spec2Model ----
(***************************************************************************)
(* A model of src/lambda_function.py: the Lambda handler that forwards a   *)
(* prompt to a SageMaker endpoint and logs the outcome to a DynamoDB       *)
(* table.                                                                  *)
(*                                                                         *)
(* Text is a sequence of characters.  A character is a one-character       *)
(* string for printable ASCII, and the name "U+XXXX" for the few others    *)
(* the model uses (tab, newline, backquote, e-acute, replacement char).    *)
(* Python values are records [t, s, n, items] of one shape:                *)
(*   str   s = the characters            int   n = the number              *)
(*   float s = its repr                                                    *)
(*   bool  n = 1 or 0                    none                              *)
(*   list  items = the elements          dict  items = the pairs, in       *)
(*   pair  s = the key, items = <<value>>        insertion order           *)
(***************************************************************************)
EXTENDS Integers, Sequences, FiniteSets, TLC

----------------------------------------------------------------------------
(* Python values *)

PStr(cs) == [t |-> "str", s |-> cs, n |-> 0, items |-> <<>>]
PInt(k) == [t |-> "int", s |-> <<>>, n |-> k, items |-> <<>>]
\* a float, s = its repr
PFloat(cs) == [t |-> "float", s |-> cs, n |-> 0, items |-> <<>>]
PBool(b) == [t |-> "bool", s |-> <<>>, n |-> IF b THEN 1 ELSE 0, items |-> <<>>]
PNone == [t |-> "none", s |-> <<>>, n |-> 0, items |-> <<>>]
PList(vs) == [t |-> "list", s |-> <<>>, n |-> 0, items |-> vs]
PPair(k, v) == [t |-> "pair", s |-> k, n |-> 0, items |-> <<v>>]
PDict(ps) == [t |-> "dict", s |-> <<>>, n |-> 0, items |-> ps]

IsStr(v) == v.t = "str"
IsDict(v) == v.t = "dict"

\* `key in d`
Has(d, k) == \E i \in 1..Len(d.items) : d.items[i].s = k

\* d.get(key, default)
Get(d, k, default) ==
    IF Has(d, k)
    THEN d.items[CHOOSE i \in 1..Len(d.items) : d.items[i].s = k].items[1]
    ELSE default

\* d[key] = v on a dict: an existing key keeps its position, a new one is appended
DictSet(d, k, v) ==
    IF Has(d, k)
    THEN PDict([i \in 1..Len(d.items) |->
                 IF d.items[i].s = k THEN PPair(k, v) ELSE d.items[i]])
    ELSE PDict(Append(d.items, PPair(k, v)))

----------------------------------------------------------------------------
(* Characters *)

Tab == "U+0009"
Newline == "U+000A"
EAcute == "U+00E9"
Replacement == "U+FFFD"

\* printable ASCII, code points 32..126 in order
Ascii ==
    << " ", "!", "\"", "#", "$", "%", "&", "'", "(", ")", "*", "+", ",", "-", ".", "/",
       "0", "1", "2", "3", "4", "5", "6", "7", "8", "9", ":", ";", "<", "=", ">", "?",
       "@", "A", "B", "C", "D", "E", "F", "G", "H", "I", "J", "K", "L", "M", "N", "O",
       "P", "Q", "R", "S", "T", "U", "V", "W", "X", "Y", "Z", "[", "\\", "]", "^", "_",
       "U+0060", "a", "b", "c", "d", "e", "f", "g", "h", "i", "j", "k", "l", "m", "n", "o",
       "p", "q", "r", "s", "t", "u", "v", "w", "x", "y", "z", "{", "|", "}", "~" >>

AsciiSet == {Ascii[i] : i \in 1..Len(Ascii)}

DigitChars == <<"0", "1", "2", "3", "4", "5", "6", "7", "8", "9">>
DigitSet == {DigitChars[i] : i \in 1..Len(DigitChars)}
DigitVal(c) == (CHOOSE i \in 1..Len(DigitChars) : DigitChars[i] = c) - 1

\* the characters str.strip() removes, among the model's characters
StripSet == {" ", Tab, Newline}

\* the whitespace of the JSON grammar, among the model's characters
JsonWs == {" ", Tab, Newline}

\* concatenation of f[lo..hi], a sequence of sequences, by halving
RECURSIVE Cat(_, _, _)
Cat(f, lo, hi) ==
    IF lo > hi THEN <<>>
    ELSE IF lo = hi THEN f[lo]
    ELSE LET mid == (lo + hi) \div 2
         IN  Cat(f, lo, mid) \o Cat(f, mid + 1, hi)

Flatten(f) == Cat(f, 1, Len(f))

\* s[:k]
Take(s, k) == SubSeq(s, 1, IF Len(s) < k THEN Len(s) ELSE k)

\* str(n) / json.dumps(n) of a non-negative int
RECURSIVE NatToStr(_)
NatToStr(k) ==
    IF k < 10 THEN <<DigitChars[k + 1]>>
    ELSE NatToStr(k \div 10) \o <<DigitChars[(k % 10) + 1]>>

IntToStr(k) == IF k < 0 THEN <<"-">> \o NatToStr(-k) ELSE NatToStr(k)

\* the validation without the strip
StripNonEmpty_NoStrip(s) == Len(s) > 0

\* s.strip() is non-empty
StripNonEmpty(s) == \E i \in 1..Len(s) : s[i] \notin StripSet

----------------------------------------------------------------------------
(* json.dumps *)

\* four hexadecimal digits of the named (non-printable or non-ASCII) characters
Hex4(c) ==
    CASE c = Tab -> <<"0", "0", "0", "9">>
      [] c = Newline -> <<"0", "0", "0", "a">>
      [] c = EAcute -> <<"0", "0", "e", "9">>
      [] c = Replacement -> <<"f", "f", "f", "d">>

\* one character of a JSON string literal, as json.dumps writes it
DumpsChar(c, ensure_ascii) ==
    CASE c = "\"" -> <<"\\", "\"">>
      [] c = "\\" -> <<"\\", "\\">>
      [] c = Newline -> <<"\\", "n">>
      [] c = Tab -> <<"\\", "t">>
      [] c \in {EAcute, Replacement} ->
            IF ensure_ascii THEN <<"\\", "u">> \o Hex4(c) ELSE <<c>>
      [] OTHER -> <<c>>

DumpsStr(s, ensure_ascii) ==
    <<"\"">> \o Flatten([i \in 1..Len(s) |-> DumpsChar(s[i], ensure_ascii)]) \o <<"\"">>

\* json.dumps(v, ensure_ascii=...), with the default separators ", " and ": "
RECURSIVE Dumps(_, _)
Dumps(v, ensure_ascii) ==
    CASE v.t = "str" -> DumpsStr(v.s, ensure_ascii)
      [] v.t = "int" -> IntToStr(v.n)
      [] v.t = "float" -> v.s
      [] v.t = "bool" -> IF v.n = 1 THEN <<"t", "r", "u", "e">>
                         ELSE <<"f", "a", "l", "s", "e">>
      [] v.t = "none" -> <<"n", "u", "l", "l">>
      [] v.t = "list" ->
            <<"[">> \o Flatten([i \in 1..Len(v.items) |->
                        (IF i > 1 THEN <<",", " ">> ELSE <<>>)
                        \o Dumps(v.items[i], ensure_ascii)]) \o <<"]">>
      [] v.t = "dict" ->
            <<"{">> \o Flatten([i \in 1..Len(v.items) |->
                        (IF i > 1 THEN <<",", " ">> ELSE <<>>)
                        \o DumpsStr(v.items[i].s, ensure_ascii) \o <<":", " ">>
                        \o Dumps(v.items[i].items[1], ensure_ascii)]) \o <<"}">>

----------------------------------------------------------------------------
(* str() of a value, as Python's repr writes it *)

ReprQuote(s) ==
    IF (\E i \in 1..Len(s) : s[i] = "'") /\ ~(\E i \in 1..Len(s) : s[i] = "\"")
    THEN "\"" ELSE "'"

ReprChar(c, q) ==
    CASE c = "\\" -> <<"\\", "\\">>
      [] c = q -> <<"\\", q>>
      [] c = Newline -> <<"\\", "n">>
      [] c = Tab -> <<"\\", "t">>
      [] OTHER -> <<c>>

ReprStr(s) ==
    LET q == ReprQuote(s)
    IN  <<q>> \o Flatten([i \in 1..Len(s) |-> ReprChar(s[i], q)]) \o <<q>>

RECURSIVE PyRepr(_)
PyRepr(v) ==
    CASE v.t = "str" -> ReprStr(v.s)
      [] v.t = "int" -> IntToStr(v.n)
      [] v.t = "float" -> v.s
      [] v.t = "bool" -> IF v.n = 1 THEN <<"T", "r", "u", "e">>
                         ELSE <<"F", "a", "l", "s", "e">>
      [] v.t = "none" -> <<"N", "o", "n", "e">>
      [] v.t = "list" ->
            <<"[">> \o Flatten([i \in 1..Len(v.items) |->
                        (IF i > 1 THEN <<",", " ">> ELSE <<>>)
                        \o PyRepr(v.items[i])]) \o <<"]">>
      [] v.t = "dict" ->
            <<"{">> \o Flatten([i \in 1..Len(v.items) |->
                        (IF i > 1 THEN <<",", " ">> ELSE <<>>)
                        \o ReprStr(v.items[i].s) \o <<":", " ">>
                        \o PyRepr(v.items[i].items[1])]) \o <<"}">>

\* str(v): a str is itself, anything else is written as repr writes it
PyStr(v) == IF v.t = "str" THEN v.s ELSE PyRepr(v)

----------------------------------------------------------------------------
(* json.loads.  The grammar is the one of json.decoder without exponents,   *)
(* which no text of the model holds.  A parse step returns                 *)
(* [ok, v, i]: whether it matched, the value, and the index after it.      *)

ParseFail == [ok |-> FALSE, v |-> PNone, i |-> 0]
ParseOk(v, i) == [ok |-> TRUE, v |-> v, i |-> i]

\* s[i:] starts with the characters w
StartsWith(s, i, w) ==
    /\ i + Len(w) - 1 <= Len(s)
    /\ \A k \in 1..Len(w) : s[i + k - 1] = w[k]

\* the first index from i on that holds no JSON whitespace
SkipWs(s, i) ==
    CHOOSE j \in i..(Len(s) + 1) :
        /\ (j = Len(s) + 1 \/ s[j] \notin JsonWs)
        /\ \A k \in i..(j - 1) : s[k] \in JsonWs

\* the character a \uXXXX escape at s[i..i+3] names, for the escapes
\* json.dumps writes of the model's characters; "?" otherwise
UnHex4(s, i) ==
    CASE StartsWith(s, i, <<"0", "0", "0", "9">>) -> Tab
      [] StartsWith(s, i, <<"0", "0", "0", "a">>) -> Newline
      [] StartsWith(s, i, <<"0", "0", "e", "9">>) -> EAcute
      [] StartsWith(s, i, <<"f", "f", "f", "d">>) -> Replacement
      [] OTHER -> "?"

\* the characters that end a chunk of a string literal (STRINGCHUNK)
ChunkEnd == {"\"", "\\", Tab, Newline}

\* py_scanstring from index i, the character after the opening quote: a chunk
\* of plain characters, then the quote that ends the literal or an escape
RECURSIVE ScanString(_, _, _)
ScanString(s, i, acc) ==
    LET j == CHOOSE j \in i..(Len(s) + 1) :
                /\ (j = Len(s) + 1 \/ s[j] \in ChunkEnd)
                /\ \A k \in i..(j - 1) : s[k] \notin ChunkEnd
        chunk == acc \o SubSeq(s, i, j - 1)
    IN  IF j > Len(s) THEN ParseFail
        ELSE IF s[j] = "\"" THEN ParseOk(PStr(chunk), j + 1)
        ELSE IF s[j] \in {Tab, Newline} THEN ParseFail
        ELSE IF j + 1 > Len(s) THEN ParseFail
        ELSE IF s[j + 1] \in {"\"", "\\", "/"}
             THEN ScanString(s, j + 2, Append(chunk, s[j + 1]))
        ELSE IF s[j + 1] = "n" THEN ScanString(s, j + 2, Append(chunk, Newline))
        ELSE IF s[j + 1] = "t" THEN ScanString(s, j + 2, Append(chunk, Tab))
        ELSE IF s[j + 1] = "u" /\ j + 5 <= Len(s) /\ UnHex4(s, j + 2) # "?"
             THEN ScanString(s, j + 6, Append(chunk, UnHex4(s, j + 2)))
        ELSE ParseFail

\* the index after the digits that start at i
DigitsEnd(s, i) ==
    CHOOSE j \in i..(Len(s) + 1) :
        /\ (j = Len(s) + 1 \/ s[j] \notin DigitSet)
        /\ \A k \in i..(j - 1) : s[k] \in DigitSet

RECURSIVE DigitsVal(_, _, _)
DigitsVal(s, i, j) ==
    IF j <= i THEN 0 ELSE 10 * DigitsVal(s, i, j - 1) + DigitVal(s[j - 1])

\* NUMBER_RE without exponents: -?(0|[1-9][0-9]*)(\.[0-9]+)?  A number with a
\* fraction is a float, kept as its literal
ScanNumber(s, i) ==
    LET neg == i <= Len(s) /\ s[i] = "-"
        d == IF neg THEN i + 1 ELSE i
        e == IF d <= Len(s) /\ s[d] = "0" THEN d + 1 ELSE DigitsEnd(s, d)
        f == IF e <= Len(s) /\ s[e] = "." THEN DigitsEnd(s, e + 1) ELSE e
    IN  IF e = d THEN ParseFail
        ELSE IF f > e + 1 THEN ParseOk(PFloat(SubSeq(s, i, f - 1)), f)
        ELSE ParseOk(PInt(IF neg THEN -DigitsVal(s, d, e) ELSE DigitsVal(s, d, e)), e)

RECURSIVE ScanOnce(_, _), ScanArray(_, _, _), ScanObject(_, _, _)

\* scan_once: one JSON value starting exactly at index i
ScanOnce(s, i) ==
    IF i > Len(s) THEN ParseFail
    ELSE IF s[i] = "\"" THEN ScanString(s, i + 1, <<>>)
    ELSE IF s[i] = "{" THEN
        LET j == SkipWs(s, i + 1)
        IN  IF j <= Len(s) /\ s[j] = "}" THEN ParseOk(PDict(<<>>), j + 1)
            ELSE ScanObject(s, j, PDict(<<>>))
    ELSE IF s[i] = "[" THEN
        LET j == SkipWs(s, i + 1)
        IN  IF j <= Len(s) /\ s[j] = "]" THEN ParseOk(PList(<<>>), j + 1)
            ELSE ScanArray(s, j, <<>>)
    ELSE IF StartsWith(s, i, <<"n", "u", "l", "l">>) THEN ParseOk(PNone, i + 4)
    ELSE IF StartsWith(s, i, <<"t", "r", "u", "e">>) THEN ParseOk(PBool(TRUE), i + 4)
    ELSE IF StartsWith(s, i, <<"f", "a", "l", "s", "e">>) THEN ParseOk(PBool(FALSE), i + 5)
    ELSE ScanNumber(s, i)

\* JSONArray: the elements from index i on, acc the ones read so far
ScanArray(s, i, acc) ==
    LET r == ScanOnce(s, i)
        j == SkipWs(s, r.i)
    IN  IF ~r.ok THEN ParseFail
        ELSE IF j > Len(s) THEN ParseFail
        ELSE IF s[j] = "]" THEN ParseOk(PList(Append(acc, r.v)), j + 1)
        ELSE IF s[j] = "," THEN ScanArray(s, SkipWs(s, j + 1), Append(acc, r.v))
        ELSE ParseFail

\* JSONObject: the pairs from index i on (which must hold a key's quote)
ScanObject(s, i, acc) ==
    IF ~(i <= Len(s) /\ s[i] = "\"") THEN ParseFail
    ELSE
    LET k == ScanString(s, i + 1, <<>>)
        c == SkipWs(s, k.i)
    IN  IF ~k.ok THEN ParseFail
        ELSE IF ~(c <= Len(s) /\ s[c] = ":") THEN ParseFail
        ELSE
        LET r == ScanOnce(s, SkipWs(s, c + 1))
            j == SkipWs(s, r.i)
        IN  IF ~r.ok THEN ParseFail
            ELSE IF j > Len(s) THEN ParseFail
            ELSE IF s[j] = "}" THEN ParseOk(DictSet(acc, k.v.s, r.v), j + 1)
            ELSE IF s[j] = "," THEN ScanObject(s, SkipWs(s, j + 1), DictSet(acc, k.v.s, r.v))
            ELSE ParseFail

\* json.loads(s): [ok, v]; ok = FALSE stands for json.JSONDecodeError
Loads(s) ==
    LET r == ScanOnce(s, SkipWs(s, 1))
    IN  IF r.ok /\ SkipWs(s, r.i) = Len(s) + 1 THEN r ELSE ParseFail

----------------------------------------------------------------------------
(* base64.b64decode(raw).decode("utf-8", errors="replace") *)

B64Alphabet ==
    << "A", "B", "C", "D", "E", "F", "G", "H", "I", "J", "K", "L", "M", "N", "O", "P",
       "Q", "R", "S", "T", "U", "V", "W", "X", "Y", "Z", "a", "b", "c", "d", "e", "f",
       "g", "h", "i", "j", "k", "l", "m", "n", "o", "p", "q", "r", "s", "t", "u", "v",
       "w", "x", "y", "z", "0", "1", "2", "3", "4", "5", "6", "7", "8", "9", "+", "/" >>

B64Set == {B64Alphabet[i] : i \in 1..Len(B64Alphabet)}
B64Val(c) == (CHOOSE i \in 1..Len(B64Alphabet) : B64Alphabet[i] = c) - 1

\* binascii.a2b_base64, not strict: characters outside the alphabet are
\* skipped, a complete pad sequence ends the data, and data that stops inside
\* a quad is binascii.Error.  [ok, bytes]
RECURSIVE A2B(_, _, _, _, _, _)
A2B(s, i, quad_pos, leftchar, pads, out) ==
    IF i > Len(s)
    THEN [ok |-> quad_pos = 0, bytes |-> out]
    ELSE IF s[i] = "="
    THEN IF quad_pos >= 2 /\ quad_pos + pads + 1 >= 4
         THEN [ok |-> TRUE, bytes |-> out]
         ELSE A2B(s, i + 1, quad_pos, leftchar,
                  IF quad_pos >= 2 THEN pads + 1 ELSE pads, out)
    ELSE IF s[i] \notin B64Set
    THEN A2B(s, i + 1, quad_pos, leftchar, pads, out)
    ELSE LET c == B64Val(s[i])
         IN  CASE quad_pos = 0 -> A2B(s, i + 1, 1, c, 0, out)
               [] quad_pos = 1 ->
                    A2B(s, i + 1, 2, c % 16, 0, Append(out, leftchar * 4 + (c \div 16)))
               [] quad_pos = 2 ->
                    A2B(s, i + 1, 3, c % 4, 0, Append(out, leftchar * 16 + (c \div 4)))
               [] quad_pos = 3 ->
                    A2B(s, i + 1, 0, 0, 0, Append(out, leftchar * 64 + c))

\* the character of a code point, for the code points the model's texts hold
Chr(code) ==
    CASE code >= 32 /\ code <= 126 -> Ascii[code - 31]
      [] code = 9 -> Tab
      [] code = 10 -> Newline
      [] code = 233 -> EAcute

\* bytes.decode("utf-8", errors="replace"), for one- and two-byte sequences:
\* a byte that starts no valid sequence becomes the replacement character
RECURSIVE Utf8Decode(_, _)
Utf8Decode(b, i) ==
    IF i > Len(b) THEN <<>>
    ELSE IF b[i] < 128 THEN <<Chr(b[i])>> \o Utf8Decode(b, i + 1)
    ELSE IF /\ b[i] >= 194 /\ b[i] <= 223
            /\ i + 1 <= Len(b) /\ b[i + 1] >= 128 /\ b[i + 1] <= 191
         THEN <<Chr((b[i] % 32) * 64 + (b[i + 1] % 64))>> \o Utf8Decode(b, i + 2)
    ELSE <<Replacement>> \o Utf8Decode(b, i + 1)

\* [ok, s]; ok = FALSE stands for the ValueError of a non-ASCII str and for
\* binascii.Error
B64DecodeUtf8(raw) ==
    IF \E i \in 1..Len(raw) : raw[i] \in {EAcute, Replacement}
    THEN [ok |-> FALSE, s |-> <<>>]
    ELSE LET r == A2B(raw, 1, 0, 0, 0, <<>>)
         IN  IF r.ok THEN [ok |-> TRUE, s |-> Utf8Decode(r.bytes, 1)]
             ELSE [ok |-> FALSE, s |-> <<>>]

----------------------------------------------------------------------------
(* The handler's helpers *)

K_body == <<"b", "o", "d", "y">>
K_isBase64Encoded == <<"i", "s", "B", "a", "s", "e", "6", "4", "E", "n", "c", "o", "d", "e", "d">>
K_inputs == <<"i", "n", "p", "u", "t", "s">>

\* safe_json: json.dumps of a value built from str, int, bool, None, list and
\* dict never raises, so the str(value) fallback is never taken
safe_json(value) == Dumps(value, FALSE)

\* try_parse_json: the parsed value, or {"_raw": s} when s does not parse
try_parse_json(s) ==
    LET r == Loads(s)
    IN  IF r.ok THEN r.v ELSE PDict(<<PPair(<<"_", "r", "a", "w">>, PStr(s))>>)

\* _parse_body falling back to the event when the body gives no parameters
ParseBody_FallBack(ev) ==
    IF ~IsDict(ev) THEN PDict(<<>>)
    ELSE IF Has(ev, K_body) /\ IsDict(Get(ev, K_body, PNone)) THEN Get(ev, K_body, PNone)
    ELSE IF /\ Has(ev, K_body) /\ IsStr(Get(ev, K_body, PNone))
            /\ Get(ev, K_isBase64Encoded, PNone) # PBool(TRUE)
            /\ Loads(Get(ev, K_body, PNone).s).ok
         THEN Loads(Get(ev, K_body, PNone).s).v
    ELSE ev

\* _parse_body: the parameters of the event.  The value json.loads returns is
\* returned as it is, whatever its type.
ParseBody(ev) ==
    IF ~IsDict(ev) THEN PDict(<<>>)
    ELSE IF Has(ev, K_body) THEN
        LET raw0 == Get(ev, K_body, PNone)
            b64 == Get(ev, K_isBase64Encoded, PNone) = PBool(TRUE) /\ IsStr(raw0)
            dec == B64DecodeUtf8(raw0.s)
        IN  IF b64 /\ ~dec.ok THEN PDict(<<>>)
            ELSE LET raw == IF b64 THEN PStr(dec.s) ELSE raw0
                 IN  IF IsStr(raw)
                     THEN LET r == Loads(raw.s)
                          IN  IF r.ok THEN r.v ELSE PDict(<<>>)
                     ELSE IF IsDict(raw) THEN raw
                     ELSE PDict(<<>>)
    ELSE ev

\* the inference request of lambda_handler
Payload(text) ==
    PDict(<< PPair(K_inputs, text),
             PPair(<<"p", "a", "r", "a", "m", "e", "t", "e", "r", "s">>, PDict(<<
                 PPair(<<"m", "a", "x", "_", "n", "e", "w", "_", "t", "o", "k", "e", "n",
                     "s">>, PInt(128)),
                 PPair(<<"t", "e", "m", "p", "e", "r", "a", "t", "u", "r", "e">>,
                     PFloat(<<"0", ".", "0">>)),
                 PPair(<<"t", "o", "p", "_", "p">>, PFloat(<<"0", ".", "9">>)),
                 PPair(<<"d", "o", "_", "s", "a", "m", "p", "l", "e">>, PBool(FALSE)),
                 PPair(<<"r", "e", "t", "u", "r", "n", "_", "f", "u", "l", "l", "_", "t",
                     "e", "x", "t">>, PBool(FALSE)) >>)) >>)

\* os.environ["SAGEMAKER_ENDPOINT"]
ENDPOINT == <<"l", "l", "m", "-", "e", "n", "d", "p", "o", "i", "n", "t">>

ApplicationJson == <<"a", "p", "p", "l", "i", "c", "a", "t", "i", "o", "n", "/", "j", "s",
    "o", "n">>

\* the keyword arguments of runtime.invoke_endpoint
InvokeArgs(text) ==
    PDict(<< PPair(<<"E", "n", "d", "p", "o", "i", "n", "t", "N", "a", "m", "e">>, PStr(ENDPOINT)),
             PPair(<<"C", "o", "n", "t", "e", "n", "t", "T", "y", "p", "e">>,
                 PStr(ApplicationJson)),
             PPair(<<"A", "c", "c", "e", "p", "t">>, PStr(ApplicationJson)),
             PPair(<<"B", "o", "d", "y">>, PStr(Dumps(Payload(text), TRUE))) >>)

PromptLimit == 4000

\* the identifier without the request id
ItemId_TimeOnly(ms, aws_request_id) == IntToStr(ms)

\* f"{int(time.time()*1000)}#{context.aws_request_id}"
ItemId(ms, aws_request_id) == IntToStr(ms) \o <<"#">> \o aws_request_id

\* the success record with the whole text as its prompt
OkItem_NoTruncation(item_id, text, result, seconds) ==
    PDict(<< PPair(<<"i", "d">>, PStr(item_id)),
             PPair(<<"r", "e", "q", "u", "e", "s", "t", "_", "i", "d">>, PStr(item_id)),
             PPair(<<"s", "t", "a", "t", "u", "s">>, PStr(<<"o", "k">>)),
             PPair(<<"p", "r", "o", "m", "p", "t">>, PStr(text.s)),
             PPair(<<"r", "e", "s", "p", "o", "n", "s", "e">>, PStr(safe_json(result))),
             PPair(<<"t", "i", "m", "e", "s", "t", "a", "m", "p">>, PInt(seconds)) >>)

\* the log record of the success path
OkItem(item_id, text, result, seconds) ==
    PDict(<< PPair(<<"i", "d">>, PStr(item_id)),
             PPair(<<"r", "e", "q", "u", "e", "s", "t", "_", "i", "d">>, PStr(item_id)),
             PPair(<<"s", "t", "a", "t", "u", "s">>, PStr(<<"o", "k">>)),
             PPair(<<"p", "r", "o", "m", "p", "t">>, PStr(Take(text.s, PromptLimit))),
             PPair(<<"r", "e", "s", "p", "o", "n", "s", "e">>, PStr(safe_json(result))),
             PPair(<<"t", "i", "m", "e", "s", "t", "a", "m", "p">>, PInt(seconds)) >>)

\* the log record of the except branch; e is str(e)
ErrorItem(item_id, text, e, seconds) ==
    PDict(<< PPair(<<"i", "d">>, PStr(item_id)),
             PPair(<<"r", "e", "q", "u", "e", "s", "t", "_", "i", "d">>, PStr(item_id)),
             PPair(<<"s", "t", "a", "t", "u", "s">>, PStr(<<"e", "r", "r", "o", "r">>)),
             PPair(<<"p", "r", "o", "m", "p", "t">>, PStr(Take(text.s, PromptLimit))),
             PPair(<<"r", "e", "s", "p", "o", "n", "s", "e">>,
                   PStr(safe_json(PDict(<<PPair(<<"i", "n", "v", "o", "k", "e", "_", "e",
                       "r", "r", "o", "r">>, PStr(e))>>)))),
             PPair(<<"t", "i", "m", "e", "s", "t", "a", "m", "p">>, PInt(seconds)) >>)

ErrorMessage == <<"E", "m", "p", "t", "y", " ", "o", "r", " ", "m", "i", "s", "s", "i",
    "n", "g", " ", "'", "i", "n", "p", "u", "t", "s", "'", " ", "r", "e", "c", "e", "i",
    "v", "e", "d", " ", "b", "y", " ", "L", "a", "m", "b", "d", "a">>

SampleLimit == 500

Response(statusCode, body) ==
    [statusCode |-> statusCode,
     headers |-> PDict(<<PPair(<<"C", "o", "n", "t", "e", "n", "t", "-", "T", "y", "p",
         "e">>, PStr(ApplicationJson))>>),
     body |-> Dumps(body, TRUE)]

Response400(ev) ==
    Response(400, PDict(<< PPair(<<"e", "r", "r", "o", "r">>, PStr(ErrorMessage)),
                           PPair(<<"r", "a", "w", "_", "e", "v", "e", "n", "t", "_", "s",
                               "a", "m", "p", "l", "e">>,
                                 PStr(Take(PyStr(ev), SampleLimit))) >>))

Response200(result) == Response(200, PDict(<<PPair(<<"r", "e", "s", "u", "l", "t">>, result)>>))

Response502(e) == Response(502, PDict(<<PPair(<<"e", "r", "r", "o", "r">>, PStr(e))>>))

\* no response yet
NoResponse == [statusCode |-> 0, headers |-> PDict(<<>>), body |-> <<>>]

----------------------------------------------------------------------------
(* The inputs: events, contexts and what the two services answer *)

\* how far the longest prompt exceeds PromptLimit
Over == 1

\* the clock's first reading, in milliseconds, and how often it advances
ClockStart == 1998
MaxTicks == 2

\* a text of n characters, the digits in turn
LongText(n) == [i \in 1..n |-> DigitChars[(i % 10) + 1]]

\* direct invocations: the event is the parameter mapping
DirectEvents ==
    {
      \* {'inputs': 'hi'}
      PDict(<<PPair(K_inputs, PStr(<<"h", "i">>))>>),
      \* {'inputs': ' a b '}
      PDict(<<PPair(K_inputs, PStr(<<" ", "a", " ", "b", " ">>))>>),
      \* {'inputs': 'say "\xe9" \\ \'x\'\n'}
      PDict(<<PPair(K_inputs, PStr(<<"s", "a", "y", " ", "\"", "U+00E9", "\"",
          " ", "\\", " ", "'", "x", "'", "U+000A">>))>>),
      \* {'inputs': ''}
      PDict(<<PPair(K_inputs, PStr(<<>>))>>),
      \* {'inputs': ' \t\n'}
      PDict(<<PPair(K_inputs, PStr(<<" ", "U+0009", "U+000A">>))>>),
      \* {}
      PDict(<<>>),
      \* {'prompt': 'hi'}
      PDict(<<PPair(<<"p", "r", "o", "m", "p", "t">>, PStr(<<"h", "i">>))>>),
      \* {'inputs': 5}
      PDict(<<PPair(K_inputs, PInt(5))>>),
      \* {'inputs': None}
      PDict(<<PPair(K_inputs, PNone)>>),
      \* {'inputs': ['hi']}
      PDict(<<PPair(K_inputs, PList(<<PStr(<<"h", "i">>)>>))>>),
      PDict(<<PPair(K_inputs, PStr(LongText(PromptLimit)))>>),
      PDict(<<PPair(K_inputs, PStr(LongText(PromptLimit + Over)))>>)
    }

\* events that are no mapping
NonMappingEvents ==
    {
      \* 'hi'
      PStr(<<"h", "i">>),
      \* None
      PNone,
      \* [{'inputs': 'hi'}]
      PList(<<PDict(<<PPair(K_inputs, PStr(<<"h", "i">>))>>)>>)
    }

\* API Gateway proxy events: the parameters are in "body"
ProxyEvents ==
    {
      \* {'body': '{"inputs": "hello"}'}
      PDict(<<PPair(K_body, PStr(<<"{", "\"", "i", "n", "p", "u", "t", "s",
          "\"", ":", " ", "\"", "h", "e", "l", "l", "o", "\"", "}">>))>>),
      \* {'body': ' {"inputs":"caf\\u00e9 ", "n": [1, {"k": null}]} '}
      PDict(<<PPair(K_body, PStr(<<" ", "{", "\"", "i", "n", "p", "u", "t",
          "s", "\"", ":", "\"", "c", "a", "f", "\\", "u", "0", "0", "e", "9",
          " ", "\"", ",", " ", "\"", "n", "\"", ":", " ", "[", "1", ",", " ",
          "{", "\"", "k", "\"", ":", " ", "n", "u", "l", "l", "}", "]", "}",
          " ">>))>>),
      \* {'body': '{"inputs": "in"}', 'inputs': 'out'}
      PDict(<<PPair(K_body, PStr(<<"{", "\"", "i", "n", "p", "u", "t", "s",
          "\"", ":", " ", "\"", "i", "n", "\"", "}">>)), PPair(K_inputs,
          PStr(<<"o", "u", "t">>))>>),
      \* {'body': '{"inputs": "  "}', 'inputs': 'out'}
      PDict(<<PPair(K_body, PStr(<<"{", "\"", "i", "n", "p", "u", "t", "s",
          "\"", ":", " ", "\"", " ", " ", "\"", "}">>)), PPair(K_inputs,
          PStr(<<"o", "u", "t">>))>>),
      \* {'body': '{"prompt": "hi"}'}
      PDict(<<PPair(K_body, PStr(<<"{", "\"", "p", "r", "o", "m", "p", "t",
          "\"", ":", " ", "\"", "h", "i", "\"", "}">>))>>),
      \* {'body': 'not json'}
      PDict(<<PPair(K_body, PStr(<<"n", "o", "t", " ", "j", "s", "o",
          "n">>))>>),
      \* {'body': 'not json', 'inputs': 'hi'}
      PDict(<<PPair(K_body, PStr(<<"n", "o", "t", " ", "j", "s", "o", "n">>)),
          PPair(K_inputs, PStr(<<"h", "i">>))>>),
      \* {'body': '', 'inputs': 'hi'}
      PDict(<<PPair(K_body, PStr(<<>>)), PPair(K_inputs, PStr(<<"h",
          "i">>))>>),
      \* {'body': 5, 'inputs': 'hi'}
      PDict(<<PPair(K_body, PInt(5)), PPair(K_inputs, PStr(<<"h", "i">>))>>),
      \* {'body': None, 'inputs': 'hi'}
      PDict(<<PPair(K_body, PNone), PPair(K_inputs, PStr(<<"h", "i">>))>>),
      \* {'body': ['x'], 'inputs': 'hi'}
      PDict(<<PPair(K_body, PList(<<PStr(<<"x">>)>>)), PPair(K_inputs,
          PStr(<<"h", "i">>))>>),
      \* {'body': {'inputs': 'hey'}}
      PDict(<<PPair(K_body, PDict(<<PPair(K_inputs, PStr(<<"h", "e",
          "y">>))>>))>>),
      \* {'body': {'inputs': 'in'}, 'inputs': 'out'}
      PDict(<<PPair(K_body, PDict(<<PPair(K_inputs, PStr(<<"i", "n">>))>>)),
          PPair(K_inputs, PStr(<<"o", "u", "t">>))>>),
      \* {'body': {}, 'inputs': 'out'}
      PDict(<<PPair(K_body, PDict(<<>>)), PPair(K_inputs, PStr(<<"o", "u",
          "t">>))>>),
      \* {'body': {'inputs': 'x'}, 'isBase64Encoded': True}
      PDict(<<PPair(K_body, PDict(<<PPair(K_inputs, PStr(<<"x">>))>>)),
          PPair(K_isBase64Encoded, PBool(TRUE))>>),
      \* {'body': '[1, 2]'}
      PDict(<<PPair(K_body, PStr(<<"[", "1", ",", " ", "2", "]">>))>>),
      \* {'body': '["inputs"]', 'inputs': 'hi'}
      PDict(<<PPair(K_body, PStr(<<"[", "\"", "i", "n", "p", "u", "t", "s",
          "\"", "]">>)), PPair(K_inputs, PStr(<<"h", "i">>))>>),
      \* {'body': '5'}
      PDict(<<PPair(K_body, PStr(<<"5">>))>>),
      \* {'body': 'null'}
      PDict(<<PPair(K_body, PStr(<<"n", "u", "l", "l">>))>>),
      \* {'body': '"inputs"'}
      PDict(<<PPair(K_body, PStr(<<"\"", "i", "n", "p", "u", "t", "s",
          "\"">>))>>),
      \* {'body': 'true', 'inputs': 'hi'}
      PDict(<<PPair(K_body, PStr(<<"t", "r", "u", "e">>)), PPair(K_inputs,
          PStr(<<"h", "i">>))>>)
    }

\* proxy events with isBase64Encoded.  "eyJpbnB1dHMiOiAiaGkifQ==" is the base64
\* of {"inputs": "hi"}, "eyJpbnB1dHMiOiAiw6kifQ==" of {"inputs": "\xe9"} in
\* UTF-8, "WzFd" of [1], "bm90IGpzb24=" of not json, "/w==" of the byte 255
Base64Events ==
    {
      \* {'body': 'eyJpbnB1dHMiOiAiaGkifQ==', 'isBase64Encoded': True}
      PDict(<<PPair(K_body, PStr(<<"e", "y", "J", "p", "b", "n", "B", "1",
          "d", "H", "M", "i", "O", "i", "A", "i", "a", "G", "k", "i", "f",
          "Q", "=", "=">>)), PPair(K_isBase64Encoded, PBool(TRUE))>>),
      \* {'isBase64Encoded': True, 'body': 'eyJpbnB1dHMiOiAiw6kifQ=='}
      PDict(<<PPair(K_isBase64Encoded, PBool(TRUE)), PPair(K_body, PStr(<<"e",
          "y", "J", "p", "b", "n", "B", "1", "d", "H", "M", "i", "O", "i",
          "A", "i", "w", "6", "k", "i", "f", "Q", "=", "=">>))>>),
      \* {'body': 'eyJpbnB1dHMiOiAiaGkifQ==', 'isBase64Encoded': 'true'}
      PDict(<<PPair(K_body, PStr(<<"e", "y", "J", "p", "b", "n", "B", "1",
          "d", "H", "M", "i", "O", "i", "A", "i", "a", "G", "k", "i", "f",
          "Q", "=", "=">>)), PPair(K_isBase64Encoded, PStr(<<"t", "r", "u",
          "e">>))>>),
      \* {'body': 'eyJpbnB1dHMiOiAiaGkifQ==', 'isBase64Encoded': 1}
      PDict(<<PPair(K_body, PStr(<<"e", "y", "J", "p", "b", "n", "B", "1",
          "d", "H", "M", "i", "O", "i", "A", "i", "a", "G", "k", "i", "f",
          "Q", "=", "=">>)), PPair(K_isBase64Encoded, PInt(1))>>),
      \* {'body': 'eyJpbnB1dHMiOiAiaGkifQ=='}
      PDict(<<PPair(K_body, PStr(<<"e", "y", "J", "p", "b", "n", "B", "1",
          "d", "H", "M", "i", "O", "i", "A", "i", "a", "G", "k", "i", "f",
          "Q", "=", "=">>))>>),
      \* {'body': 'abc', 'isBase64Encoded': True}
      PDict(<<PPair(K_body, PStr(<<"a", "b", "c">>)), PPair(K_isBase64Encoded,
          PBool(TRUE))>>),
      \* {'body': 'a', 'isBase64Encoded': True, 'inputs': 'hi'}
      PDict(<<PPair(K_body, PStr(<<"a">>)), PPair(K_isBase64Encoded,
          PBool(TRUE)), PPair(K_inputs, PStr(<<"h", "i">>))>>),
      \* {'body': '\xe9', 'isBase64Encoded': True, 'inputs': 'hi'}
      PDict(<<PPair(K_body, PStr(<<"U+00E9">>)), PPair(K_isBase64Encoded,
          PBool(TRUE)), PPair(K_inputs, PStr(<<"h", "i">>))>>),
      \* {'body': '/w==', 'isBase64Encoded': True}
      PDict(<<PPair(K_body, PStr(<<"/", "w", "=", "=">>)),
          PPair(K_isBase64Encoded, PBool(TRUE))>>),
      \* {'body': 'WzFd', 'isBase64Encoded': True}
      PDict(<<PPair(K_body, PStr(<<"W", "z", "F", "d">>)),
          PPair(K_isBase64Encoded, PBool(TRUE))>>),
      \* {'body': 'bm90IGpzb24=', 'isBase64Encoded': True}
      PDict(<<PPair(K_body, PStr(<<"b", "m", "9", "0", "I", "G", "p", "z",
          "b", "2", "4", "=">>)), PPair(K_isBase64Encoded, PBool(TRUE))>>)
    }

Events == DirectEvents \cup NonMappingEvents \cup ProxyEvents \cup Base64Events

\* the events of the concurrent invocations
ConcEvents ==
    {
      \* {'inputs': 'hi'}
      PDict(<<PPair(K_inputs, PStr(<<"h", "i">>))>>),
      \* {'body': '{"inputs": "hello"}'}
      PDict(<<PPair(K_body, PStr(<<"{", "\"", "i", "n", "p", "u", "t", "s",
          "\"", ":", " ", "\"", "h", "e", "l", "l", "o", "\"", "}">>))>>),
      \* {'inputs': ''}
      PDict(<<PPair(K_inputs, PStr(<<>>))>>)
    }

\* context.aws_request_id
RequestIds == { <<"r", "1">>, <<"r", "2">> }

\* the bytes resp["Body"].read() may return: {"generated_text":"x"}, a list
\* with an e-acute and escaped quotes, text that is no JSON, nothing, a
\* number, and JSON with a byte that is no UTF-8
ResponseBodies ==
    { <<123, 34, 103, 101, 110, 101, 114, 97, 116, 101, 100, 95, 116, 101, 120, 116, 34,
        58, 34, 120, 34, 125>>,
      <<91, 123, 34, 103, 101, 110, 101, 114, 97, 116, 101, 100, 95, 116, 101, 120, 116,
          34, 58, 32, 34, 99, 97, 102, 195, 169, 32, 92, 34, 113, 92, 34, 34, 125, 93>>,
      <<110, 111, 116, 32, 106, 115, 111, 110>>,
      <<>>,
      <<53>>,
      <<123, 34, 97, 34, 58, 255, 125>> }

\* what the endpoint of the concurrent invocations answers:
\* {"generated_text":"x"}
ConcResponseBodies == { <<123, 34, 103, 101, 110, 101, 114, 97, 116, 101, 100, 95, 116,
    101, 120, 116, 34, 58, 34, 120, 34, 125>> }

\* str(e) of the exceptions invoke_endpoint, read and put_item may raise
InvokeErrors == { <<"b", "o", "o", "m">>, <<"C", "o", "u", "l", "d", " ", "n", "o", "t",
    " ", "c", "o", "n", "n", "e", "c", "t", " ", "t", "o", " ", "\"", "U+00E9", "\"">> }
ReadErrors == { <<"r", "e", "a", "d", " ", "t", "i", "m", "e", "d", " ", "o", "u", "t">> }
PutErrors == { <<"t", "a", "b", "l", "e", " ", "n", "o", "t", " ", "f", "o", "u", "n", "d">> }

----------------------------------------------------------------------------
(* The state *)

Procs == {"p1", "p2"}

VARIABLES
    pc,          \* where each invocation of lambda_handler is
    event,       \* its event
    request_id,  \* its context.aws_request_id
    text,        \* body.get("inputs", "")
    item_id,
    raw_out,
    result,
    e,           \* str(e) of the exception the except branch caught
    response,    \* what lambda_handler returned
    raised,      \* the exception that left lambda_handler
    trace,       \* the calls it made to the two services, in order
    table,       \* the items of the DynamoDB table
    bodies,      \* the bodies the deployed endpoint answers with
    now          \* the clock, in milliseconds

vars == <<pc, event, request_id, text, item_id, raw_out, result, e, response,
          raised, trace, table, bodies, now>>

NoException == [type |-> "", msg |-> <<>>]
Exception(type, msg) == [type |-> type, msg |-> msg]

Call(op, arg, ok, exc) == [op |-> op, arg |-> arg, ok |-> ok, exc |-> exc]

InitLocals ==
    /\ text = [p \in Procs |-> PNone]
    /\ item_id = [p \in Procs |-> <<>>]
    /\ raw_out = [p \in Procs |-> <<>>]
    /\ result = [p \in Procs |-> PNone]
    /\ e = [p \in Procs |-> <<>>]
    /\ response = [p \in Procs |-> NoResponse]
    /\ raised = [p \in Procs |-> NoException]
    /\ trace = [p \in Procs |-> <<>>]
    /\ table = {}
    /\ now = ClockStart

\* one invocation, of any event
Init ==
    /\ pc = [p \in Procs |-> IF p = "p1" THEN "start" ELSE "off"]
    /\ \E ev \in Events : event = [p \in Procs |-> IF p = "p1" THEN ev ELSE PNone]
    /\ \E r \in RequestIds : request_id = [p \in Procs |-> IF p = "p1" THEN r ELSE <<>>]
    /\ bodies = ResponseBodies
    /\ InitLocals

\* concurrent invocations
InitConc ==
    /\ pc = [p \in Procs |-> "start"]
    /\ event \in [Procs -> ConcEvents]
    /\ request_id \in [Procs -> RequestIds]
    /\ bodies = ConcResponseBodies
    /\ InitLocals

----------------------------------------------------------------------------
(* lambda_handler, one action per call to a service *)

\* dynamo.put_item(Item=item): an item replaces the one of the same id
PutItem(item) ==
    LET id == Get(item, <<"i", "d">>, PNone)
    IN  table' = {it \in table : Get(it, <<"i", "d">>, PNone) # id} \cup {item}

\* lines 51-75: parse, validate, build the request and the identifier
Start(p) ==
    /\ pc[p] = "start"
    /\ LET body == ParseBody(event[p])
       IN  IF ~IsDict(body)
           THEN \* body.get raises AttributeError
                /\ pc' = [pc EXCEPT ![p] = "raised"]
                /\ raised' = [raised EXCEPT ![p] =
                       Exception("AttributeError", <<"o", "b", "j", "e", "c", "t", " ",
                           "h", "a", "s", " ", "n", "o", " ", "a", "t", "t", "r", "i",
                           "b", "u", "t", "e", " ", "'", "g", "e", "t", "'">>)]
                /\ UNCHANGED <<text, item_id, response>>
           ELSE LET t == Get(body, K_inputs, PStr(<<>>))
                IN  /\ text' = [text EXCEPT ![p] = t]
                    /\ IF ~IsStr(t) \/ ~StripNonEmpty(t.s)
                       THEN /\ pc' = [pc EXCEPT ![p] = "done"]
                            /\ response' = [response EXCEPT ![p] = Response400(event[p])]
                            /\ UNCHANGED item_id
                       ELSE /\ pc' = [pc EXCEPT ![p] = "invoke"]
                            /\ item_id' = [item_id EXCEPT ![p] = ItemId(now, request_id[p])]
                            /\ UNCHANGED response
                    /\ UNCHANGED raised
    /\ UNCHANGED <<event, request_id, raw_out, result, e, trace, table, bodies, now>>

\* invoke_endpoint called again after it raised
InvokeEndpoint_Retry(p) ==
    /\ pc[p] = "invoke"
    /\ \E x \in InvokeErrors :
          trace' = [trace EXCEPT ![p] =
              Append(@, [op |-> "invoke_endpoint", arg |-> PNone, ok |-> FALSE, exc |-> x])]
    /\ UNCHANGED <<pc, event, request_id, text, item_id, raw_out, result, e, response,
                   raised, table, bodies, now>>

\* lines 78-83: runtime.invoke_endpoint returns or raises
InvokeEndpoint(p) ==
    /\ pc[p] = "invoke"
    /\ \/ /\ trace' = [trace EXCEPT ![p] =
                 Append(@, Call("invoke_endpoint", InvokeArgs(text[p]), TRUE, <<>>))]
          /\ pc' = [pc EXCEPT ![p] = "read"]
          /\ UNCHANGED e
       \/ \E x \in InvokeErrors :
          /\ trace' = [trace EXCEPT ![p] =
                 Append(@, Call("invoke_endpoint", InvokeArgs(text[p]), FALSE, x))]
          /\ e' = [e EXCEPT ![p] = x]
          /\ pc' = [pc EXCEPT ![p] = "except"]
    /\ UNCHANGED <<event, request_id, text, item_id, raw_out, result, response,
                   raised, table, bodies, now>>

\* lines 85-86: read and decode the response, parse it
ReadBody(p) ==
    /\ pc[p] = "read"
    /\ \/ \E b \in bodies :
          /\ trace' = [trace EXCEPT ![p] = Append(@, Call("read", PNone, TRUE, <<>>))]
          /\ raw_out' = [raw_out EXCEPT ![p] = Utf8Decode(b, 1)]
          /\ result' = [result EXCEPT ![p] = try_parse_json(Utf8Decode(b, 1))]
          /\ pc' = [pc EXCEPT ![p] = "log"]
          /\ UNCHANGED e
       \/ \E x \in ReadErrors :
          /\ trace' = [trace EXCEPT ![p] = Append(@, Call("read", PNone, FALSE, x))]
          /\ e' = [e EXCEPT ![p] = x]
          /\ pc' = [pc EXCEPT ![p] = "except"]
          /\ UNCHANGED <<raw_out, result>>
    /\ UNCHANGED <<event, request_id, text, item_id, response, raised, table,
                   bodies, now>>

\* lines 89-103: log success and return 200.  put_item is inside the try, so
\* what it raises is caught by the except branch too.
LogOk(p) ==
    /\ pc[p] = "log"
    /\ LET log_item == OkItem(item_id[p], text[p], result[p], now \div 1000)
       IN  \/ /\ trace' = [trace EXCEPT ![p] =
                     Append(@, Call("put_item", log_item, TRUE, <<>>))]
              /\ PutItem(log_item)
              /\ response' = [response EXCEPT ![p] = Response200(result[p])]
              /\ pc' = [pc EXCEPT ![p] = "done"]
              /\ UNCHANGED e
           \/ \E x \in PutErrors :
              /\ trace' = [trace EXCEPT ![p] =
                     Append(@, Call("put_item", log_item, FALSE, x))]
              /\ e' = [e EXCEPT ![p] = x]
              /\ pc' = [pc EXCEPT ![p] = "except"]
              /\ UNCHANGED <<table, response>>
    /\ UNCHANGED <<event, request_id, text, item_id, raw_out, result, raised,
                   bodies, now>>

\* lines 105-121: log failure and return 502.  Nothing catches what this
\* put_item raises.
LogError(p) ==
    /\ pc[p] = "except"
    /\ LET log_item == ErrorItem(item_id[p], text[p], e[p], now \div 1000)
       IN  \/ /\ trace' = [trace EXCEPT ![p] =
                     Append(@, Call("put_item", log_item, TRUE, <<>>))]
              /\ PutItem(log_item)
              /\ response' = [response EXCEPT ![p] = Response502(e[p])]
              /\ pc' = [pc EXCEPT ![p] = "done"]
              /\ UNCHANGED raised
           \/ \E x \in PutErrors :
              /\ trace' = [trace EXCEPT ![p] =
                     Append(@, Call("put_item", log_item, FALSE, x))]
              /\ raised' = [raised EXCEPT ![p] = Exception("ClientError", x)]
              /\ pc' = [pc EXCEPT ![p] = "raised"]
              /\ UNCHANGED <<table, response>>
    /\ UNCHANGED <<event, request_id, text, item_id, raw_out, result, e, bodies, now>>

\* time passes
Tick ==
    /\ now < ClockStart + MaxTicks
    /\ now' = now + 1
    /\ UNCHANGED <<pc, event, request_id, text, item_id, raw_out, result, e,
                   response, raised, trace, table, bodies>>

Next ==
    \/ \E p \in Procs : Start(p)
    \/ \E p \in Procs : InvokeEndpoint(p)
    \/ \E p \in Procs : ReadBody(p)
    \/ \E p \in Procs : LogOk(p)
    \/ \E p \in Procs : LogError(p)
    \/ Tick

Spec == Init /\ [][Next]_vars

SpecConc == InitConc /\ [][Next]_vars

----------------------------------------------------------------------------
(* What the claims speak of *)

\* the calls of invocation p to one operation, in order
Calls(p, op) == SelectSeq(trace[p], LAMBDA c : c.op = op)

Puts(p) == Calls(p, "put_item")

\* p returned a response / an exception left p
Returned(p) == pc[p] = "done"
Left(p) == pc[p] = "raised"
Finished(p) == Returned(p) \/ Left(p)

\* p passed validation and reached Step 3
Validated(p) == item_id[p] # <<>>

\* the JSON body of p's response, decoded
BodyOf(p) == Loads(response[p].body)

K_error == <<"e", "r", "r", "o", "r">>
K_result == <<"r", "e", "s", "u", "l", "t">>
K_status == <<"s", "t", "a", "t", "u", "s">>
K_prompt == <<"p", "r", "o", "m", "p", "t">>
K_response == <<"r", "e", "s", "p", "o", "n", "s", "e">>
K_id == <<"i", "d">>
K_request_id == <<"r", "e", "q", "u", "e", "s", "t", "_", "i", "d">>

\* the inputs of the event's parameters are absent, no string, empty or blank
InvalidInputs(ev) ==
    LET b == ParseBody(ev)
    IN  /\ IsDict(b)
        /\ \/ ~Has(b, K_inputs)
           \/ ~IsStr(Get(b, K_inputs, PNone))
           \/ \A i \in 1..Len(Get(b, K_inputs, PNone).s) :
                  Get(b, K_inputs, PNone).s[i] \in StripSet

\* the remote call and the read of p have succeeded
RemoteOk(p) == \E i \in 1..Len(trace[p]) : trace[p][i].op = "read" /\ trace[p][i].ok

\* the remote call or the read of p has raised
RemoteFailed(p) ==
    \E i \in 1..Len(trace[p]) : trace[p][i].op \in {"invoke_endpoint", "read"} /\ ~trace[p][i].ok

\* str(e) of that failure
RemoteError(p) ==
    trace[p][CHOOSE i \in 1..Len(trace[p]) :
                 trace[p][i].op \in {"invoke_endpoint", "read"} /\ ~trace[p][i].ok].exc

\* a put_item of p has raised
PutFailed(p) == \E i \in 1..Len(Puts(p)) : ~Puts(p)[i].ok

\* the parsed result R of the raw output: the JSON value, or {"_raw": raw}
ParsedResult(raw) ==
    IF Loads(raw).ok THEN Loads(raw).v ELSE PDict(<<PPair(<<"_", "r", "a", "w">>, PStr(raw))>>)

----------------------------------------------------------------------------
(* C1: an invocation whose extracted inputs is absent, not a string, empty  *)
(* or whitespace-only returns 400 with the fixed message, and makes no call *)
(* to the endpoint and no log-store write.                                  *)

----------------------------------------------------------------------------
(* C2: an invocation that passes validation performs exactly one put_item,  *)
(* whatever the outcome of the remote call and of the write; one that fails *)
(* validation performs none; no invocation performs two.                    *)

C2_ExactlyOnePut ==
    \A p \in Procs :
        /\ Len(Puts(p)) <= 1
        /\ Finished(p) => Len(Puts(p)) = IF Validated(p) THEN 1 ELSE 0

----------------------------------------------------------------------------
(* C3: when a put_item of a finished invocation has raised, on either path, *)
(* the exception has left the handler, no response was returned and that    *)
(* put_item was the invocation's last call.                                 *)

C3_PutFailurePropagates ==
    \A p \in Procs :
        (Finished(p) /\ PutFailed(p)) =>
            /\ Left(p)
            /\ response[p] = NoResponse
            /\ Len(Puts(p)) = 1

----------------------------------------------------------------------------
(* C4: an invocation that returns answers 400, 200 or 502 with a JSON body  *)
(* holding "error" or "result", and an exception leaves the handler only    *)
(* after a put_item has raised.                                             *)

C4_AlwaysStructured ==
    \A p \in Procs :
        /\ Returned(p) =>
              /\ response[p].statusCode \in {400, 200, 502}
              /\ BodyOf(p).ok
              /\ Has(BodyOf(p).v, K_error) \/ Has(BodyOf(p).v, K_result)
        /\ Left(p) => PutFailed(p)

----------------------------------------------------------------------------
(* C5: an invocation that returns after the remote call and the read have   *)
(* succeeded has returned 200 with {"result": R}, R the parsed response or  *)
(* {"_raw": raw}, and has written exactly one record, with status "ok" and  *)
(* R serialized as its response.                                            *)

C5_Ok200 ==
    \A p \in Procs :
        (Returned(p) /\ RemoteOk(p)) =>
            /\ response[p].statusCode = 200
            /\ BodyOf(p).ok
            /\ BodyOf(p).v = PDict(<<PPair(K_result, ParsedResult(raw_out[p]))>>)
            /\ Len(Puts(p)) = 1
            /\ Get(Puts(p)[1].arg, K_status, PNone) = PStr(<<"o", "k">>)
            /\ IsStr(Get(Puts(p)[1].arg, K_response, PNone))
            /\ Loads(Get(Puts(p)[1].arg, K_response, PNone).s).ok
            /\ Loads(Get(Puts(p)[1].arg, K_response, PNone).s).v = ParsedResult(raw_out[p])

----------------------------------------------------------------------------
(* C6: an invocation that returns after the remote call or the read raised  *)
(* with description D has returned 502 with {"error": D} and has written    *)
(* exactly one record, with status "error" and {"invoke_error": D} as its   *)
(* response; a 502 and an "error" record come only from such a failure, a   *)
(* 200 goes with "ok" records only and a 502 with "error" records only.     *)

C6_Error502 ==
    \A p \in Procs :
        /\ (Returned(p) /\ RemoteFailed(p)) =>
              /\ response[p].statusCode = 502
              /\ BodyOf(p).ok
              /\ BodyOf(p).v = PDict(<<PPair(K_error, PStr(RemoteError(p)))>>)
              /\ Len(Puts(p)) = 1
              /\ Get(Puts(p)[1].arg, K_status, PNone) = PStr(<<"e", "r", "r", "o", "r">>)
              /\ Loads(Get(Puts(p)[1].arg, K_response, PNone).s).ok
              /\ Loads(Get(Puts(p)[1].arg, K_response, PNone).s).v =
                     PDict(<<PPair(<<"i", "n", "v", "o", "k", "e", "_", "e", "r", "r",
                         "o", "r">>, PStr(RemoteError(p)))>>)
        /\ response[p].statusCode = 502 => RemoteFailed(p)
        /\ \A i \in 1..Len(Puts(p)) :
              /\ Get(Puts(p)[i].arg, K_status, PNone) = PStr(<<"e", "r", "r", "o",
                  "r">>) => RemoteFailed(p)
              /\ response[p].statusCode = 200 =>
                     Get(Puts(p)[i].arg, K_status, PNone) = PStr(<<"o", "k">>)
              /\ response[p].statusCode = 502 =>
                     Get(Puts(p)[i].arg, K_status, PNone) = PStr(<<"e", "r", "r", "o", "r">>)

----------------------------------------------------------------------------
(* C7: the inputs of the inference request equal the extracted text T,      *)
(* untrimmed and untruncated, and the prompt of every log record, "ok" or   *)
(* "error", is the first min(len(T), 4000) characters of T.                 *)

\* the text of the event, as extraction defines it (None when the parameters
\* are no mapping)
Extracted(ev) ==
    IF IsDict(ParseBody(ev)) THEN Get(ParseBody(ev), K_inputs, PStr(<<>>)) ELSE PNone

C7_ForwardedAndPrompt ==
    \A p \in Procs :
        \A i \in 1..Len(trace[p]) :
            /\ trace[p][i].op = "invoke_endpoint" =>
                  LET sent == Loads(Get(trace[p][i].arg, <<"B", "o", "d", "y">>, PNone).s)
                  IN  /\ sent.ok
                      /\ Get(sent.v, K_inputs, PNone) = Extracted(event[p])
            /\ trace[p][i].op = "put_item" =>
                  LET T == Extracted(event[p]).s
                      prompt == Get(trace[p][i].arg, K_prompt, PNone)
                      n == IF Len(T) < 4000 THEN Len(T) ELSE 4000
                  IN  /\ IsStr(prompt)
                      /\ Len(prompt.s) = n
                      /\ \A k \in 1..n : prompt.s[k] = T[k]

\* a text longer than the limit has been forwarded, logged and answered
C7_Witness ==
    /\ Len(Extracted(event["p1"]).s) > PromptLimit
    /\ Returned("p1")
    /\ response["p1"].statusCode = 200
    /\ Cardinality(table) = 1

----------------------------------------------------------------------------
(* C8: invocations with different request identifiers write records with    *)
(* different ids, also in the same millisecond, so the record an invocation *)
(* has written stays in the table; in each record request_id equals id.     *)

\* the last record p has written successfully is in the table
LastPutKept(p) ==
    \A i \in 1..Len(Puts(p)) :
        (Puts(p)[i].ok /\ \A j \in (i + 1)..Len(Puts(p)) : ~Puts(p)[j].ok) =>
            Puts(p)[i].arg \in table

C8_DistinctIds ==
    \A p \in Procs :
        /\ \A i \in 1..Len(Puts(p)) :
              /\ Get(Puts(p)[i].arg, K_request_id, PNone) = Get(Puts(p)[i].arg, K_id, PNone)
              /\ Get(Puts(p)[i].arg, K_id, PNone) = PStr(item_id[p])
        /\ \A q \in Procs \ {p} :
              request_id[p] # request_id[q] =>
                  /\ (Validated(p) /\ Validated(q)) => item_id[p] # item_id[q]
                  /\ LastPutKept(p)

\* the time-stamp part of an id: what precedes the first "#"
Millis(id) == SubSeq(id, 1,
    (CHOOSE k \in 1..Len(id) : id[k] = "#" /\ \A j \in 1..(k - 1) : id[j] # "#") - 1)

\* two invocations of the same millisecond have both written their record
C8_Witness ==
    /\ request_id["p1"] # request_id["p2"]
    /\ Validated("p1") /\ Validated("p2")
    /\ Millis(item_id["p1"]) = Millis(item_id["p2"])
    /\ \E i \in 1..Len(Puts("p1")) : Puts("p1")[i].ok
    /\ \E i \in 1..Len(Puts("p2")) : Puts("p2")[i].ok
    /\ Cardinality(table) = 2

----------------------------------------------------------------------------
(* C9: when the event is a mapping with a "body", the parameters come from  *)
(* the body alone: a body that is no string and no mapping, or a string     *)
(* that is no JSON, gives 400 whatever the event's own "inputs", and the    *)
(* text is the one the event without its own "inputs" gives.  Without a     *)
(* "body" the event itself is the parameter mapping.                        *)

\* the event without its top-level "inputs"
WithoutInputs(ev) ==
    PDict(SelectSeq(ev.items, LAMBDA pr : pr.s # K_inputs))

\* the body of the event is a string that is no JSON: json.loads rejects it,
\* or, under isBase64Encoded = True, b64decode or json.loads of the decoded
\* text does
BodyIsBadJson(ev) ==
    /\ IsStr(Get(ev, K_body, PNone))
    /\ IF Get(ev, K_isBase64Encoded, PNone) = PBool(TRUE)
       THEN \/ ~B64DecodeUtf8(Get(ev, K_body, PNone).s).ok
            \/ ~Loads(B64DecodeUtf8(Get(ev, K_body, PNone).s).s).ok
       ELSE ~Loads(Get(ev, K_body, PNone).s).ok

C9_BodyAlone ==
    \A p \in Procs :
        (pc[p] \notin {"off", "start"} /\ IsDict(event[p])) =>
            /\ (Has(event[p], K_body) /\ Get(event[p], K_body, PNone).t \notin {"str", "dict"}) =>
                  Returned(p) /\ response[p].statusCode = 400
            /\ (Has(event[p], K_body) /\ BodyIsBadJson(event[p])) =>
                  Returned(p) /\ response[p].statusCode = 400
            /\ (Has(event[p], K_body) /\ ~Left(p)) =>
                  text[p] = Get(ParseBody(WithoutInputs(event[p])), K_inputs, PStr(<<>>))
            /\ ~Has(event[p], K_body) =>
                  text[p] = Get(event[p], K_inputs, PStr(<<>>))

\* a body that is no string and no mapping came with valid "inputs" of the event
C9_Witness ==
    /\ Returned("p1")
    /\ IsDict(event["p1"])
    /\ Has(event["p1"], K_body)
    /\ Get(event["p1"], K_body, PNone).t \notin {"str", "dict"}
    /\ IsStr(Get(event["p1"], K_inputs, PNone))
    /\ StripNonEmpty(Get(event["p1"], K_inputs, PNone).s)

----------------------------------------------------------------------------
(* C10: in every invocation validation precedes the remote call, the remote *)
(* call precedes every log-store write, and a 200 or 502 follows a write    *)
(* that succeeded; the endpoint is called at most once.                     *)

C10_Order ==
    \A p \in Procs :
        /\ Len(Calls(p, "invoke_endpoint")) <= 1
        /\ trace[p] # <<>> =>
              /\ trace[p][1].op = "invoke_endpoint"
              /\ IsStr(text[p]) /\ StripNonEmpty(text[p].s)
              /\ response[p].statusCode # 400
        /\ \A i \in 1..Len(trace[p]) :
              trace[p][i].op = "put_item" =>
                  /\ i > 1
                  /\ \/ trace[p][i - 1].op = "read" /\ trace[p][i - 1].ok
                     \/ trace[p][i - 1].op \in {"invoke_endpoint", "read"} /\ ~trace[p][i - 1].ok
                     \/ trace[p][i - 1].op = "put_item" /\ ~trace[p][i - 1].ok
        /\ response[p].statusCode \in {200, 502} =>
              /\ trace[p] # <<>>
              /\ trace[p][Len(trace[p])].op = "put_item"
              /\ trace[p][Len(trace[p])].ok

\* a 502 has been returned after the call raised and the record was written
C10_Witness ==
    /\ response["p1"].statusCode = 502
    /\ Len(trace["p1"]) = 2
    /\ ~trace["p1"][1].ok

====
